---- MODULE Spec2Model ----
(***************************************************************************)
(* Model of the `configs` crate (src/configs/src/lib.rs).                  *)
(*                                                                         *)
(* The crate exports one function, config::default_path(), which returns   *)
(* the string literal ".config", and one unit test, test_default_path,     *)
(* which asserts exactly that.  The crate holds no state of its own.  The  *)
(* model places the function in its surroundings: a process whose          *)
(* environment may change at any time, and a number of threads that call   *)
(* default_path() repeatedly and keep what it returned.                    *)
(***************************************************************************)
EXTENDS Naturals, Sequences, FiniteSets

\* Number of threads calling into the crate.
NumCallers == 2
\* Number of completed calls after which a thread stops calling.
MaxCalls == 2

Callers == 1..NumCallers

\* Option<T>: None is the empty sequence, Some(v) the one-element sequence.
None == <<>>
Some(v) == <<v>>

\* Values the process environment may hold for a configuration override:
\* unset, blank, whitespace only, or a path.
EnvValues == {None, Some(""), Some("   "), Some("/etc/agency")}

VARIABLES
    env,          \* process-wide state: the environment's override variable
    pc,           \* pc[c]: where caller c is ("idle", "in_call", "returned")
    result,       \* result[c]: what default_path() last returned to c
    calls,        \* calls[c]: number of calls c has completed and consumed
    testOutcome   \* outcome of the unit test ("not_run", "ok", "failed")

vars == <<env, pc, result, calls, testOutcome>>

\* A plausible slip: the function consults the process environment and only
\* falls back to the literal.
default_path_env == IF env = None THEN ".config" ELSE env[1]

\* pub fn default_path() -> &'static str { ".config" }
default_path == ".config"

Init ==
    /\ env \in EnvValues
    /\ pc = [c \in Callers |-> "idle"]
    /\ result = [c \in Callers |-> None]
    /\ calls = [c \in Callers |-> 0]
    /\ testOutcome = "not_run"

\* Something outside the crate changes the process environment.
SetEnv(v) ==
    /\ env # v
    /\ env' = v
    /\ UNCHANGED <<pc, result, calls, testOutcome>>

\* Caller c enters default_path().
Call(c) ==
    /\ pc[c] = "idle"
    /\ calls[c] < MaxCalls
    /\ pc' = [pc EXCEPT ![c] = "in_call"]
    /\ UNCHANGED <<env, result, calls, testOutcome>>

\* default_path() returns to caller c: the body is the literal alone.
Return(c) ==
    /\ pc[c] = "in_call"
    /\ result' = [result EXCEPT ![c] = Some(default_path)]
    /\ pc' = [pc EXCEPT ![c] = "returned"]
    /\ UNCHANGED <<env, calls, testOutcome>>

\* Caller c has used the value and is ready to call again.
Consume(c) ==
    /\ pc[c] = "returned"
    /\ pc' = [pc EXCEPT ![c] = "idle"]
    /\ calls' = [calls EXCEPT ![c] = calls[c] + 1]
    /\ UNCHANGED <<env, result, testOutcome>>

\* #[test] fn test_default_path() { assert_eq!(config::default_path(), ".config"); }
test_default_path ==
    /\ testOutcome = "not_run"
    /\ testOutcome' = IF default_path = ".config" THEN "ok" ELSE "failed"
    /\ UNCHANGED <<env, pc, result, calls>>

Next ==
    \/ \E v \in EnvValues : SetEnv(v)
    \/ \E c \in Callers : Call(c)
    \/ \E c \in Callers : Return(c)
    \/ \E c \in Callers : Consume(c)
    \/ test_default_path

Spec == Init /\ [][Next]_vars

TypeOK ==
    /\ env \in EnvValues
    /\ pc \in [Callers -> {"idle", "in_call", "returned"}]
    /\ result \in [Callers -> {None} \cup {Some(s) : s \in {".config", "", "   ", "/etc/agency"}}]
    /\ calls \in [Callers -> 0..MaxCalls]
    /\ testOutcome \in {"not_run", "ok", "failed"}

\* C4: every value default_path() has returned, to any caller, after any
\* number of earlier calls and under any environment, is the string
\* ".config"; and the crate's own test of that never fails.
DefaultPathIsConfig ==
    /\ \A c \in Callers : result[c] # None => result[c] = Some(".config")
    /\ testOutcome # "failed"

\* C4 witness: a caller holds the value of a call made after an earlier
\* completed call, while the environment holds a non-blank override, another
\* caller is inside the function, and the test has run.
DefaultPathIsConfigWitness ==
    \E c \in Callers :
        /\ pc[c] = "returned"
        /\ calls[c] >= 1
        /\ result[c] # None
        /\ env = Some("/etc/agency")
        /\ \E d \in Callers \ {c} : pc[d] = "in_call"
        /\ testOutcome = "ok"

====
